---- MODULE Spec2Model ----
(***************************************************************************)
(* CertificateVerificationCircuit (src/src/lib.rs): the halo2 circuit that *)
(* binds an RSA modulus and a SHA-256 digest to a PKCS#1 v1.5 signature.   *)
(*                                                                         *)
(* The module models configure() and synthesize() of the circuit as a      *)
(* state machine, one action per statement of synthesize, followed by the  *)
(* MockProver check the repository's test runs.  The gadgets the circuit   *)
(* calls (SHA-256, big-integer limbs, the RSA verifier, the floor planner) *)
(* are external crates: they are modelled by their documented contract.    *)
(* The integers of the model are small: the moduli are toy RSA moduli,     *)
(* while the circuit's parameters (2048 bits, 64-bit limbs, 1280 bytes)    *)
(* keep their values.                                                      *)
(***************************************************************************)
EXTENDS Integers, Sequences, FiniteSets, TLC

\* ---------------------------------------------------------------- constants
BITS_LEN == 2048
LIMB_BITS == 64
DEFAULT_E == 65537
MSG_LEN == 1280
TEST_MSG_LEN == 1199
DIGEST_BYTES == 32
MODULUS_BYTES == BITS_LEN \div 8
SKIP_FIRST_PASS == TRUE
RegionPasses == 2

\* ------------------------------------------------------------------- bounds
MaxTag == 1
MaxForgery == 1
MaxRuns == 2

\* ------------------------------------------------------------ pure functions
\* 2048 / 64 limbs (the test's num_limbs, RSAConfig's BITS_LEN / LIMB_BITS).
NumLimbs == BITS_LEN \div LIMB_BITS

RECURSIVE Pow2(_)
Pow2(k) == IF k = 0 THEN 1 ELSE 2 * Pow2(k - 1)

\* x >> k, by k halvings; stops as soon as nothing is left to shift.
RECURSIVE ShiftRight(_, _)
ShiftRight(x, k) == IF k = 0 \/ x = 0 THEN x ELSE ShiftRight(x \div 2, k - 1)

\* x & (2^k - 1).  Every integer of the model is below 2^31, so a mask of 31
\* bits or more keeps the whole value.
LowBits(x, k) == IF k >= 31 THEN x ELSE x % Pow2(k)

\* decompose_biguint(e, num_limbs, limb_bits): limb i (from 0, least
\* significant first) is bits [i*limb_bits, (i+1)*limb_bits) of e.
Limb(e, i, limb_bits) == LowBits(ShiftRight(e, i * limb_bits), limb_bits)

decompose_biguint(e, num_limbs, limb_bits) ==
    [i \in 1..num_limbs |-> Limb(e, i - 1, limb_bits)]

\* base^exp mod m by square and multiply on the bits of exp.
RECURSIVE PowMod(_, _, _)
PowMod(base, exp, m) ==
    IF exp = 0 THEN 1 % m
    ELSE LET h == PowMod(base, exp \div 2, m)
             sq == (h * h) % m
         IN IF exp % 2 = 1 THEN (sq * (base % m)) % m ELSE sq

\* SHA-256 stands as a fixed function from the message (its length and its
\* content, the tag) to 32 bytes.
Sha256(m) ==
    [j \in 1..DIGEST_BYTES |-> (m.tag * 37 + m.len * 11 + j * 101 + 7) % 256]

\* ASN.1 DigestInfo prefix of SHA-256 (19 bytes).
DigestInfoPrefix ==
    <<48, 49, 48, 13, 6, 9, 96, 134, 72, 1, 101, 3, 4, 2, 1, 5, 0, 4, 32>>

\* EMSA-PKCS1-v1_5: 00 01 FF..FF 00 || DigestInfo || digest, as long as the
\* modulus (256 bytes).
EmsaBytes(h) ==
    LET padLen == MODULUS_BYTES - 3 - Len(DigestInfoPrefix) - Len(h)
    IN <<0, 1>> \o [k \in 1..padLen |-> 255] \o <<0>> \o DigestInfoPrefix \o h

\* The big-endian integer of bytes[lo..hi], reduced modulo m: the left half
\* shifted past the right half, plus the right half.
RECURSIVE BytesMod(_, _, _, _)
BytesMod(bytes, lo, hi, m) ==
    IF lo > hi THEN 0
    ELSE IF lo = hi THEN bytes[lo] % m
    ELSE LET mid == (lo + hi) \div 2
             left == BytesMod(bytes, lo, mid, m)
             right == BytesMod(bytes, mid + 1, hi, m)
         IN (left * PowMod(256, hi - mid, m) + right) % m

EmsaInt(h, m) == LET em == EmsaBytes(h) IN BytesMod(em, 1, Len(em), m)

\* Toy RSA keys: n = p*q, d = e^-1 mod lcm(p-1, q-1) for e = 65537.
Keys == {[n |-> 21, d |-> 5], [n |-> 33, d |-> 13]}
Moduli == {key.n : key \in Keys}

MsgLens == {TEST_MSG_LEN, MSG_LEN, MSG_LEN + 1}
Messages == [len : MsgLens, tag : 0..MaxTag]

\* The encoded digest of every message under every modulus, as an integer
\* below the modulus (a table: each entry is computed once).
EncodedDigests == {<<n, m, EmsaInt(Sha256(m), n)>> : n \in Moduli, m \in Messages}
EncodedDigest(n, m) == (CHOOSE t \in EncodedDigests : t[1] = n /\ t[2] = m)[3]

\* s is a PKCS#1 v1.5 signature of SHA-256(m) under modulus n, exponent e.
ValidSignature(n, s, m) ==
    /\ s < n
    /\ PowMod(s, DEFAULT_E, n) = EncodedDigest(n, m)

\* Signing with the private exponent d (how the test's fixture was made).
Sign(key, m) == PowMod(EncodedDigest(key.n, m), key.d, key.n)

\* Signatures tried: the one the private key makes, and small forgeries.
Signatures(key, m) == {Sign(key, m)} \cup (0..MaxForgery)

\* The fallible calls of synthesize (each ends in `?`), and the rows at which a
\* constrain_instance call may fail.
FaultRows == {0, 17, NumLimbs - 1}
Faults ==
    {[at |-> a, row |-> 0] :
        a \in {"none", "sha_load", "range_load", "assign_public_key",
               "assign_signature", "verify"}}
    \cup {[at |-> a, row |-> r] : a \in {"constrain_n", "constrain_hash"}, r \in FaultRows}

\* Cells of the region, named by what they hold.
LimbCells(kind) == [k \in 1..NumLimbs |-> [kind |-> kind, idx |-> k - 1]]
ByteCells == [k \in 1..DIGEST_BYTES |-> [kind |-> "hash_byte", idx |-> k - 1]]
FlagCell == [kind |-> "is_valid", idx |-> 0]

Range(f) == {f[k] : k \in DOMAIN f}

\* The values a sequence of cells is assigned.
Assigned(cells, values) ==
    [c \in Range(cells) |-> values[CHOOSE k \in DOMAIN cells : cells[k] = c]]

NoResult == [kind |-> "none", at |-> "none"]
NoInputs == <<>>

VARIABLES
    circuit,              \* CertificateVerificationCircuit {n_big, sign_big, msg}
    fault,                \* the call that fails in this environment
    pc,                   \* the statement synthesize is at
    n_instance,           \* Config.n_instance (column index, -1 before configure)
    hash_instance,        \* Config.hash_instance
    num_instance_columns, \* ConstraintSystem: instance columns allocated
    equality_enabled,     \* ConstraintSystem: columns with equality enabled
    params,               \* what configure hands to the gadgets
    sha_loaded,           \* the hash gadget's tables are loaded
    range_loaded,         \* the range-check lookup table is loaded
    first_pass,           \* the local of synthesize
    invocations,          \* calls of the region closure in this synthesize
    ctx_open,             \* a Context was opened on the region
    advice,               \* assigned cells and their values
    cells_to_lookup,      \* ctx.cells_to_lookup: range checks asked for
    lookups,              \* range checks fixed by finalize
    finalize_calls,       \* calls of range().finalize in this synthesize
    const_eq,             \* cells constrained to a constant
    verifier_args,        \* messages verify_pkcs1v15_signature was called on
    region_result,        \* what the closure last returned
    public_key_cells,     \* bound at line 121
    hashed_msg_cells,
    i,                    \* index of the running copy loop
    instance_constraints, \* constrain_instance calls made, in order
    result,               \* what synthesize returned
    steps,                \* statements completed in this synthesize, in order
    run,                  \* synthesize calls made from this configuration
    prev,                 \* the last successful synthesis: its witness, its instance
    public_inputs,        \* the instance handed to MockProver::run
    prover                \* outcome of the MockProver check

cfgVars == <<n_instance, hash_instance, num_instance_columns, equality_enabled,
            params>>
inVars == <<circuit, fault>>
tableVars == <<sha_loaded, range_loaded>>
ctxVars == <<ctx_open, advice, cells_to_lookup, lookups, finalize_calls, const_eq,
             verifier_args>>
regionVars == <<first_pass, invocations, region_result>>
copyVars == <<public_key_cells, hashed_msg_cells, i, instance_constraints>>
proverVars == <<public_inputs, prover>>
runVars == <<run, prev>>
vars == <<inVars, pc, cfgVars, tableVars, ctxVars, regionVars, copyVars, result,
          steps, runVars, proverVars>>

\* The state of one synthesize call before its first statement.
FreshSynthesis ==
    /\ sha_loaded' = FALSE
    /\ range_loaded' = FALSE
    /\ first_pass' = FALSE
    /\ invocations' = 0
    /\ region_result' = <<<<>>, <<>>>>
    /\ ctx_open' = FALSE
    /\ advice' = <<>>
    /\ cells_to_lookup' = {}
    /\ lookups' = {}
    /\ finalize_calls' = 0
    /\ const_eq' = {}
    /\ verifier_args' = <<>>
    /\ public_key_cells' = <<>>
    /\ hashed_msg_cells' = <<>>
    /\ i' = 0
    /\ instance_constraints' = <<>>
    /\ result' = NoResult
    /\ steps' = <<>>
    /\ public_inputs' = NoInputs
    /\ prover' = "none"

Init ==
    /\ \E key \in Keys, m \in Messages :
        \E s \in Signatures(key, m) :
            circuit = [n_big |-> key.n, sign_big |-> s, msg |-> m]
    /\ fault \in Faults
    /\ pc = "configure"
    /\ n_instance = -1
    /\ hash_instance = -1
    /\ num_instance_columns = 0
    /\ equality_enabled = {}
    /\ params = [limb_bits |-> 0, bits_len |-> 0, max_byte_size |-> 0]
    /\ sha_loaded = FALSE
    /\ range_loaded = FALSE
    /\ first_pass = FALSE
    /\ invocations = 0
    /\ region_result = <<<<>>, <<>>>>
    /\ ctx_open = FALSE
    /\ advice = <<>>
    /\ cells_to_lookup = {}
    /\ lookups = {}
    /\ finalize_calls = 0
    /\ const_eq = {}
    /\ verifier_args = <<>>
    /\ public_key_cells = <<>>
    /\ hashed_msg_cells = <<>>
    /\ i = 0
    /\ instance_constraints = <<>>
    /\ result = NoResult
    /\ steps = <<>>
    /\ run = 0
    /\ prev = <<>>
    /\ public_inputs = NoInputs
    /\ prover = "none"

\* `?` on an Err: synthesize returns it at once.
Fail(at) ==
    /\ result' = [kind |-> "Err", at |-> at]
    /\ pc' = "done"

\* A statement completed.
Step(name, next) ==
    /\ steps' = Append(steps, name)
    /\ pc' = next

\* Configure with the two instance columns taken in the other order.
Configure_SwappedColumns ==
    /\ pc = "configure"
    /\ hash_instance' = num_instance_columns
    /\ n_instance' = num_instance_columns + 1
    /\ num_instance_columns' = num_instance_columns + 2
    /\ equality_enabled' = equality_enabled
                           \cup {num_instance_columns, num_instance_columns + 1}
    /\ params' = [limb_bits |-> LIMB_BITS, bits_len |-> BITS_LEN,
                   max_byte_size |-> MSG_LEN]
    /\ pc' = "sha_load"
    /\ run' = 1
    /\ UNCHANGED <<inVars, tableVars, ctxVars, regionVars, copyVars, result, steps,
                   prev, proverVars>>

\* configure(): the two instance columns, in this order, with equality enabled.
Configure ==
    /\ pc = "configure"
    /\ n_instance' = num_instance_columns
    /\ hash_instance' = num_instance_columns + 1
    /\ num_instance_columns' = num_instance_columns + 2
    /\ equality_enabled' = equality_enabled
                           \cup {num_instance_columns, num_instance_columns + 1}
    /\ params' = [limb_bits |-> LIMB_BITS, bits_len |-> BITS_LEN,
                   max_byte_size |-> MSG_LEN]
    /\ pc' = "sha_load"
    /\ run' = 1
    /\ UNCHANGED <<inVars, tableVars, ctxVars, regionVars, copyVars, result, steps,
                   prev, proverVars>>

\* LoadSha going straight to the region, the range table never loaded.
LoadSha_SkipsRangeTable ==
    /\ pc = "sha_load"
    /\ IF fault.at = "sha_load"
       THEN Fail("sha_load") /\ UNCHANGED <<sha_loaded, steps>>
       ELSE sha_loaded' = TRUE /\ Step("sha_load", "assign_region") /\ UNCHANGED result
    /\ UNCHANGED <<inVars, cfgVars, range_loaded, ctxVars, regionVars, copyVars, runVars,
                   proverVars>>

\* config.sha256_config.load(&mut layouter)?
LoadSha ==
    /\ pc = "sha_load"
    /\ IF fault.at = "sha_load"
       THEN Fail("sha_load") /\ UNCHANGED <<sha_loaded, steps>>
       ELSE sha_loaded' = TRUE /\ Step("sha_load", "range_load") /\ UNCHANGED result
    /\ UNCHANGED <<inVars, cfgVars, range_loaded, ctxVars, regionVars, copyVars, runVars,
                   proverVars>>

\* biguint_config.range().load_lookup_table(&mut layouter)?
LoadRange ==
    /\ pc = "range_load"
    /\ IF fault.at = "range_load"
       THEN Fail("range_load") /\ UNCHANGED <<range_loaded, steps>>
       ELSE range_loaded' = TRUE /\ Step("range_load", "assign_region")
            /\ UNCHANGED result
    /\ UNCHANGED <<inVars, cfgVars, sha_loaded, ctxVars, regionVars, copyVars, runVars,
                   proverVars>>

\* let mut first_pass = SKIP_FIRST_PASS; layouter.assign_region(...)
EnterAssignRegion ==
    /\ pc = "assign_region"
    /\ first_pass' = SKIP_FIRST_PASS
    /\ invocations' = 0
    /\ pc' = "region"
    /\ UNCHANGED <<inVars, cfgVars, tableVars, ctxVars, region_result, copyVars,
                   result, steps, runVars, proverVars>>

\* ShapePass without `first_pass = false`.
ShapePass_KeepsFlag ==
    /\ pc = "region"
    /\ invocations < RegionPasses
    /\ first_pass
    /\ region_result' = <<<<>>, <<>>>>
    /\ invocations' = invocations + 1
    /\ UNCHANGED <<inVars, pc, cfgVars, tableVars, ctxVars, first_pass, copyVars,
                   result, steps, runVars, proverVars>>

\* The closure, called with first_pass set: nothing is allocated.
ShapePass ==
    /\ pc = "region"
    /\ invocations < RegionPasses
    /\ first_pass
    /\ first_pass' = FALSE
    /\ region_result' = <<<<>>, <<>>>>
    /\ invocations' = invocations + 1
    /\ UNCHANGED <<inVars, pc, cfgVars, tableVars, ctxVars, copyVars, result, steps,
                   runVars, proverVars>>

\* The closure, called with first_pass clear: biguint_config.new_context(region).
NewContext ==
    /\ pc = "region"
    /\ invocations < RegionPasses
    /\ ~first_pass
    /\ ctx_open' = TRUE
    /\ Step("new_context", "assign_public_key")
    /\ UNCHANGED <<inVars, cfgVars, tableVars, advice, cells_to_lookup, lookups,
                   finalize_calls, const_eq, verifier_args, regionVars, copyVars,
                   result, runVars, proverVars>>

\* The signature's limbs taken for the public key's.
PublicKeyCells_FromSignature == LimbCells("sig_limb")

\* public_key.n.limbs() and hashed_msg, as cells (lines 154-163).
PublicKeyCells == LimbCells("n_limb")
HashedMsgCells == ByteCells

\* A limb-encoded integer of the configured width, every limb range-checked.
AssignBigUint(kind, value) ==
    LET cells == LimbCells(kind)
        limbs == decompose_biguint(value, params.bits_len \div params.limb_bits,
                                   params.limb_bits)
    IN /\ advice' = Assigned(cells, limbs) @@ advice
       /\ cells_to_lookup' = cells_to_lookup
              \cup {[cell |-> c, bits |-> params.limb_bits] : c \in Range(cells)}

\* config.rsa_config.assign_public_key(ctx, public_key)?
AssignPublicKey ==
    /\ pc = "assign_public_key"
    /\ IF fault.at = "assign_public_key"
       THEN Fail("assign_public_key")
            /\ UNCHANGED <<advice, cells_to_lookup, steps>>
       ELSE AssignBigUint("n_limb", circuit.n_big)
            /\ Step("assign_public_key", "assign_signature")
            /\ UNCHANGED result
    /\ UNCHANGED <<inVars, cfgVars, tableVars, ctx_open, lookups, finalize_calls,
                   const_eq, verifier_args, regionVars, copyVars, runVars, proverVars>>

\* AssignSignature without the `?`: the error is dropped and synthesis goes on.
AssignSignature_ErrorSwallowed ==
    /\ pc = "assign_signature"
    /\ AssignBigUint("sig_limb", circuit.sign_big)
    /\ Step("assign_signature", "verify")
    /\ UNCHANGED result
    /\ UNCHANGED <<inVars, cfgVars, tableVars, ctx_open, lookups, finalize_calls,
                   const_eq, verifier_args, regionVars, copyVars, runVars, proverVars>>

\* config.rsa_config.assign_signature(ctx, signature)?
AssignSignature ==
    /\ pc = "assign_signature"
    /\ IF fault.at = "assign_signature"
       THEN Fail("assign_signature")
            /\ UNCHANGED <<advice, cells_to_lookup, steps>>
       ELSE AssignBigUint("sig_limb", circuit.sign_big)
            /\ Step("assign_signature", "verify")
            /\ UNCHANGED result
    /\ UNCHANGED <<inVars, cfgVars, tableVars, ctx_open, lookups, finalize_calls,
                   const_eq, verifier_args, regionVars, copyVars, runVars, proverVars>>

\* The hash gadget takes messages up to the size it was configured with.
HashAccepts(m) == m.len <= params.max_byte_size

\* verifier.verify_pkcs1v15_signature(ctx, &public_key, &self.msg, &signature)?
\* The digest bytes are assigned (each range-checked to 8 bits) and the flag is
\* 1 exactly when the signature verifies.
Verify ==
    /\ pc = "verify"
    /\ verifier_args' = Append(verifier_args, circuit.msg)
    /\ IF fault.at = "verify" \/ ~HashAccepts(circuit.msg)
       THEN Fail("verify") /\ UNCHANGED <<advice, cells_to_lookup, steps>>
       ELSE /\ advice' = Assigned(ByteCells, Sha256(circuit.msg))
                         @@ (FlagCell :> (IF ValidSignature(circuit.n_big,
                                                            circuit.sign_big,
                                                            circuit.msg)
                                          THEN 1 ELSE 0))
                         @@ advice
            /\ cells_to_lookup' = cells_to_lookup
                   \cup {[cell |-> c, bits |-> 8] : c \in Range(ByteCells)}
            /\ Step("verify", "assert_is_const")
            /\ UNCHANGED result
    /\ UNCHANGED <<inVars, cfgVars, tableVars, ctx_open, lookups, finalize_calls,
                   const_eq, regionVars, copyVars, runVars, proverVars>>

\* AssertIsConst that constrains nothing: the flag is computed and dropped.
AssertIsConst_Dropped ==
    /\ pc = "assert_is_const"
    /\ Step("assert_is_const", "finalize")
    /\ UNCHANGED <<inVars, cfgVars, tableVars, ctxVars, regionVars, copyVars,
                   result, runVars, proverVars>>

\* biguint_config.gate().assert_is_const(ctx, &is_valid, F::one())
AssertIsConst ==
    /\ pc = "assert_is_const"
    /\ const_eq' = const_eq \cup {[cell |-> FlagCell, const |-> 1]}
    /\ Step("assert_is_const", "finalize")
    /\ UNCHANGED <<inVars, cfgVars, tableVars, ctx_open, advice, cells_to_lookup,
                   lookups, finalize_calls, verifier_args, regionVars, copyVars,
                   result, runVars, proverVars>>

\* The finalize call left out.
Finalize_Omitted ==
    /\ pc = "finalize"
    /\ Step("finalize", "collect")
    /\ UNCHANGED <<inVars, cfgVars, tableVars, ctxVars, regionVars, copyVars,
                   result, runVars, proverVars>>

\* biguint_config.range().finalize(ctx): the cells asked to be range-checked so
\* far are the ones the lookup argument checks.
Finalize ==
    /\ pc = "finalize"
    /\ lookups' = lookups \cup cells_to_lookup
    /\ finalize_calls' = finalize_calls + 1
    /\ Step("finalize", "collect")
    /\ UNCHANGED <<inVars, cfgVars, tableVars, ctx_open, advice, cells_to_lookup,
                   const_eq, verifier_args, regionVars, copyVars, result, runVars,
                   proverVars>>

\* Ok((public_key_cells, hashed_msg_cells)): the closure returns.
Collect ==
    /\ pc = "collect"
    /\ region_result' = <<PublicKeyCells, HashedMsgCells>>
    /\ invocations' = invocations + 1
    /\ pc' = "region"
    /\ UNCHANGED <<inVars, cfgVars, tableVars, ctxVars, first_pass, copyVars, result,
                   steps, runVars, proverVars>>

\* assign_region returns what the last call of the closure returned.
RegionReturn ==
    /\ pc = "region"
    /\ invocations = RegionPasses
    /\ public_key_cells' = region_result[1]
    /\ hashed_msg_cells' = region_result[2]
    /\ i' = 0
    /\ pc' = "constrain_n"
    /\ UNCHANGED <<inVars, cfgVars, tableVars, ctxVars, regionVars,
                   instance_constraints, result, steps, runVars, proverVars>>

\* layouter.constrain_instance(cell, column, row)?
ConstrainInstance(name, cells, column) ==
    IF fault.at = name /\ fault.row = i
    THEN Fail(name) /\ UNCHANGED <<instance_constraints, i, steps>>
    ELSE /\ instance_constraints' =
                Append(instance_constraints,
                       [cell |-> cells[i + 1], column |-> column, row |-> i])
         /\ i' = i + 1
         /\ Step(name, pc)
         /\ UNCHANGED result

\* for (i, cell) in public_key_cells.into_iter().enumerate()
ConstrainN ==
    /\ pc = "constrain_n"
    /\ i < Len(public_key_cells)
    /\ ConstrainInstance("constrain_n", public_key_cells, n_instance)
    /\ UNCHANGED <<inVars, cfgVars, tableVars, ctxVars, regionVars, public_key_cells,
                   hashed_msg_cells, runVars, proverVars>>

ConstrainNExit ==
    /\ pc = "constrain_n"
    /\ i = Len(public_key_cells)
    /\ i' = 0
    /\ pc' = "constrain_hash"
    /\ UNCHANGED <<inVars, cfgVars, tableVars, ctxVars, regionVars, public_key_cells,
                   hashed_msg_cells, instance_constraints, result, steps, runVars,
                   proverVars>>

\* The digest copied into the modulus column (the first loop's column reused).
ConstrainHash_IntoModulusColumn ==
    /\ pc = "constrain_hash"
    /\ i < Len(hashed_msg_cells)
    /\ ConstrainInstance("constrain_hash", hashed_msg_cells, n_instance)
    /\ UNCHANGED <<inVars, cfgVars, tableVars, ctxVars, regionVars, public_key_cells,
                   hashed_msg_cells, runVars, proverVars>>

\* for (i, cell) in hashed_msg_cells.into_iter().enumerate()
ConstrainHash ==
    /\ pc = "constrain_hash"
    /\ i < Len(hashed_msg_cells)
    /\ ConstrainInstance("constrain_hash", hashed_msg_cells, hash_instance)
    /\ UNCHANGED <<inVars, cfgVars, tableVars, ctxVars, regionVars, public_key_cells,
                   hashed_msg_cells, runVars, proverVars>>

\* Ok(())
ReturnOk ==
    /\ pc = "constrain_hash"
    /\ i = Len(hashed_msg_cells)
    /\ result' = [kind |-> "Ok", at |-> "none"]
    /\ pc' = "done"
    /\ UNCHANGED <<inVars, cfgVars, tableVars, ctxVars, regionVars, copyVars, steps,
                   runVars, proverVars>>

\* ------------------------------------------------------------ the test's check
\* let n_fes = decompose_biguint(&n_big, num_limbs, limb_bits);
\* let hash_fes = hashed_msg.iter().map(..); vec![n_fes, hash_fes]
HonestInputs(c) ==
    <<decompose_biguint(c.n_big, NumLimbs, LIMB_BITS), Sha256(c.msg)>>

\* Instances a caller may hand to the check: the honest one, one with a limb
\* changed, one with a digest byte changed, one with the two lists swapped.
InputChoices(c) ==
    LET h == HonestInputs(c)
    IN {h,
        <<[h[1] EXCEPT ![1] = @ + 1], h[2]>>,
        <<h[1], [h[2] EXCEPT ![DIGEST_BYTES] = (@ + 1) % 256]>>,
        <<h[2], h[1]>>}

\* The value of an instance column at a row (unset rows are zero).
InstanceValue(inputs, column, row) ==
    IF column + 1 \in DOMAIN inputs /\ row + 1 \in DOMAIN inputs[column + 1]
    THEN inputs[column + 1][row + 1]
    ELSE 0

InRange(v, bits) == bits >= 31 \/ v < Pow2(bits)

\* MockProver::verify: every constraint of the synthesized circuit holds.
Satisfied(inputs) ==
    /\ \A c \in const_eq : advice[c.cell] = c.const
    /\ \A l \in lookups : InRange(advice[l.cell], l.bits)
    /\ \A k \in DOMAIN instance_constraints :
          LET c == instance_constraints[k]
          IN /\ c.column \in equality_enabled
             /\ advice[c.cell] = InstanceValue(inputs, c.column, c.row)

\* MockProver::run(k, &circuit, public_inputs), then prover.verify().
MockProverCheck ==
    /\ pc = "done"
    /\ \E inputs \in InputChoices(circuit) :
          /\ public_inputs' = inputs
          /\ prover' = IF result.kind = "Err" THEN "RunErr"
                       ELSE IF Satisfied(inputs) THEN "Ok" ELSE "VerifyFailed"
    /\ pc' = "checked"
    /\ UNCHANGED <<inVars, cfgVars, tableVars, ctxVars, regionVars, copyVars, result,
                   steps, runVars>>

\* The values the cells bound to an instance column hold, in binding order.
ExposedColumn(column) ==
    LET cs == SelectSeq(instance_constraints, LAMBDA c : c.column = column)
    IN [k \in 1..Len(cs) |-> advice[cs[k].cell]]

Exposed == <<ExposedColumn(0), ExposedColumn(1)>>

\* Private witnesses that leave n and SHA-256(msg) as they are.
SameStatement(c) ==
    {[n_big |-> c.n_big, sign_big |-> s, msg |-> m] :
        s \in Signatures(CHOOSE k \in Keys : k.n = c.n_big, c.msg),
        m \in {mm \in Messages : Sha256(mm) = Sha256(c.msg)}}

\* The same configuration synthesized again (key generation, then proving; or
\* another proof of the same statement from another private witness).
Resynthesize ==
    /\ pc = "checked"
    /\ run < MaxRuns
    /\ FreshSynthesis
    /\ run' = run + 1
    /\ prev' = IF result.kind = "Ok"
               THEN <<[sign_big |-> circuit.sign_big, msg |-> circuit.msg,
                       exposed |-> Exposed]>>
               ELSE prev
    /\ circuit' \in SameStatement(circuit)
    /\ pc' = "sha_load"
    /\ UNCHANGED <<fault, cfgVars>>

Next ==
    \/ Configure
    \/ LoadSha
    \/ LoadRange
    \/ EnterAssignRegion
    \/ ShapePass
    \/ NewContext
    \/ AssignPublicKey
    \/ AssignSignature
    \/ Verify
    \/ AssertIsConst
    \/ Finalize
    \/ Collect
    \/ RegionReturn
    \/ ConstrainN
    \/ ConstrainNExit
    \/ ConstrainHash
    \/ ReturnOk
    \/ MockProverCheck
    \/ Resynthesize

Spec == Init /\ [][Next]_vars

\* ------------------------------------------------------------------ properties
IsPrefix(a, b) == Len(a) <= Len(b) /\ \A k \in DOMAIN a : a[k] = b[k]

\* The statements of the region closure, then the two copy loops.
Prologue ==
    <<"sha_load", "range_load", "new_context", "assign_public_key",
      "assign_signature", "verify", "assert_is_const", "finalize">>

Canon ==
    Prologue \o [k \in 1..NumLimbs |-> "constrain_n"]
             \o [k \in 1..DIGEST_BYTES |-> "constrain_hash"]

PreLoop == {"sha_load", "range_load", "assign_public_key", "assign_signature", "verify"}

\* What has completed when the call named `at` fails (at row `row` of a loop).
StepsBefore(at, row) ==
    CASE at = "sha_load" -> <<>>
      [] at = "range_load" -> SubSeq(Canon, 1, 1)
      [] at = "assign_public_key" -> SubSeq(Canon, 1, 3)
      [] at = "assign_signature" -> SubSeq(Canon, 1, 4)
      [] at = "verify" -> SubSeq(Canon, 1, 5)
      [] at = "constrain_n" -> SubSeq(Canon, 1, Len(Prologue) + row)
      [] at = "constrain_hash" -> SubSeq(Canon, 1, Len(Prologue) + NumLimbs + row)

Valid == ValidSignature(circuit.n_big, circuit.sign_big, circuit.msg)

FlagAsserted == [cell |-> FlagCell, const |-> 1] \in const_eq

\* C1: for a valid PKCS#1 v1.5 signature (of a message within the configured
\* size, in an environment where no gadget call fails) synthesis returns Ok,
\* the check against the instance [limbs of n, bytes of SHA-256(msg)] reports
\* Ok, and the cells bound to the two instance columns hold exactly those two
\* lists.
C1_ValidSignatureAccepted ==
    (/\ Valid
     /\ fault.at = "none"
     /\ circuit.msg.len <= MSG_LEN)
    => /\ pc \in {"done", "checked"} => result.kind = "Ok"
       /\ result.kind = "Ok" =>
             /\ ExposedColumn(0) = decompose_biguint(circuit.n_big, 32, 64)
             /\ ExposedColumn(1) = Sha256(circuit.msg)
             /\ Satisfied(HonestInputs(circuit))
       /\ (pc = "checked" /\ public_inputs = HonestInputs(circuit)) => prover = "Ok"

C1_Witness ==
    /\ pc = "checked"
    /\ Valid
    /\ circuit.msg.len = TEST_MSG_LEN
    /\ public_inputs = HonestInputs(circuit)
    /\ prover = "Ok"

\* C2: for a signature that is not valid the check never reports Ok, whatever
\* instance it is given: the flag the verifier returned is constrained to the
\* constant one in every synthesis that returns Ok, and the flag is zero.
C2_InvalidSignatureRejected ==
    /\ result.kind = "Ok" => FlagAsserted
    /\ ~Valid =>
          /\ prover # "Ok"
          /\ result.kind = "Ok" =>
                /\ advice[FlagCell] = 0
                /\ \A inputs \in InputChoices(circuit) : ~Satisfied(inputs)

C2_Witness ==
    /\ pc = "checked"
    /\ ~Valid
    /\ result.kind = "Ok"
    /\ public_inputs = HonestInputs(circuit)
    /\ prover = "VerifyFailed"

\* The k-th constrain_instance call of a synthesis (k from 1).
ExpectedConstraint(k) ==
    IF k <= 32
    THEN [cell |-> [kind |-> "n_limb", idx |-> k - 1], column |-> 0, row |-> k - 1]
    ELSE [cell |-> [kind |-> "hash_byte", idx |-> k - 33], column |-> 1,
          row |-> k - 33]

RowsOf(column) ==
    {instance_constraints[k].row :
        k \in {j \in DOMAIN instance_constraints :
                  instance_constraints[j].column = column}}

CountOf(column) ==
    Cardinality({j \in DOMAIN instance_constraints :
                    instance_constraints[j].column = column})

\* C3: the public instance layout.  The two instance columns are distinct and
\* the modulus column is the first; limb cell i of the assigned modulus is bound
\* to row i of n_instance and digest cell j to row j of hash_instance, in index
\* order; after a successful synthesize each column has exactly 32 entries, on
\* rows 0..31, none skipped and none used twice.
C3_InstanceLayout ==
    /\ pc # "configure" =>
          /\ n_instance = 0
          /\ hash_instance = 1
          /\ {n_instance, hash_instance} \subseteq equality_enabled
    /\ \A k \in DOMAIN instance_constraints :
          /\ instance_constraints[k] = ExpectedConstraint(k)
          /\ k <= 32 => advice[instance_constraints[k].cell]
                           = Limb(circuit.n_big, k - 1, 64)
          /\ k > 32 => advice[instance_constraints[k].cell]
                          = Sha256(circuit.msg)[k - 32]
    /\ result.kind = "Ok" =>
          /\ Len(instance_constraints) = 64
          /\ CountOf(n_instance) = 32 /\ RowsOf(n_instance) = 0..31
          /\ CountOf(hash_instance) = 32 /\ RowsOf(hash_instance) = 0..31

C3_Witness ==
    /\ result.kind = "Ok"
    /\ Len(instance_constraints) = 64
    /\ instance_constraints[64] =
          [cell |-> [kind |-> "hash_byte", idx |-> 31], column |-> 1, row |-> 31]

\* C4: only limb cells of the modulus and byte cells of the digest are ever
\* bound to an instance column (never a cell of the signature, nor the flag),
\* and a synthesis from another private witness that leaves n and SHA-256(msg)
\* as they were exposes the same public instance as the one before it.
C4_OnlyModulusAndDigestExposed ==
    /\ \A k \in DOMAIN instance_constraints :
          /\ instance_constraints[k].cell.kind \in {"n_limb", "hash_byte"}
          /\ instance_constraints[k].cell # FlagCell
          /\ instance_constraints[k].cell \notin Range(LimbCells("sig_limb"))
    /\ (result.kind = "Ok" /\ prev # <<>>) => Exposed = prev[1].exposed

C4_Witness ==
    /\ result.kind = "Ok"
    /\ prev # <<>>
    /\ prev[1].sign_big # circuit.sign_big
    /\ Exposed = prev[1].exposed

\* C5 (as claimed): a message of exactly MSG_LEN bytes synthesizes, and a
\* longer one is rejected before verify_pkcs1v15_signature is called on it.
C5_LongMessageRejectedBeforeVerifier ==
    /\ (pc \in {"done", "checked"} /\ fault.at = "none"
        /\ circuit.msg.len = MSG_LEN) => result.kind = "Ok"
    /\ \A k \in DOMAIN verifier_args : verifier_args[k].len <= MSG_LEN

\* C6: no partial-result path.  Ok is returned only when no call failed and
\* all 64 instance constraints were made; an error is the error of the first
\* failing call, exactly the statements before that call have run and none
\* after it, and no instance constraint exists when the call is one before the
\* copy loops.
C6_NoPartialResult ==
    /\ (result.kind # "none") <=> (pc \in {"done", "checked"})
    /\ result.kind = "Ok" =>
          /\ fault.at = "none"
          /\ steps = Canon
          /\ Len(instance_constraints) = 64
    /\ result.kind = "Err" =>
          /\ result.at = fault.at \/ (result.at = "verify" /\ circuit.msg.len > MSG_LEN)
          /\ steps = StepsBefore(result.at, fault.row)
          /\ result.at \in PreLoop => instance_constraints = <<>>
          /\ result.at = "constrain_n" => Len(instance_constraints) = fault.row
          /\ result.at = "constrain_hash" =>
                Len(instance_constraints) = 32 + fault.row

C6_Witness ==
    /\ pc = "checked"
    /\ result = [kind |-> "Err", at |-> "assign_signature"]
    /\ "assign_public_key" \in Range(steps)
    /\ instance_constraints = <<>>

\* C8: the statements of one synthesize run in the fixed order (hash tables,
\* range table, context, public key, signature, verifier, flag assertion,
\* finalize, modulus copies, digest copies); no cell is assigned before both
\* tables are loaded and no instance constraint is made before the flag
\* assertion and the finalize.
C8_FixedOrder ==
    /\ IsPrefix(steps, Canon)
    /\ (ctx_open \/ DOMAIN advice # {}) => (sha_loaded /\ range_loaded)
    /\ range_loaded => sha_loaded
    /\ DOMAIN advice # {} => ctx_open
    /\ instance_constraints # <<>> => (FlagAsserted /\ finalize_calls >= 1)
    /\ FlagAsserted => FlagCell \in DOMAIN advice

C8_Witness ==
    /\ result.kind = "Ok"
    /\ steps = Canon
    /\ Len(steps) = 72

\* C9: two-pass allocation.  In every synthesize call first_pass starts true;
\* the first call of the closure allocates nothing (no context, no cell, no
\* constraint), returns the two empty lists and clears first_pass; the second
\* call does the work and returns the 32 limb cells and the 32 digest cells,
\* which are the ones bound to the instance columns.
C9_TwoPass ==
    /\ invocations <= 2
    /\ (pc = "region" /\ invocations = 0) => first_pass
    /\ invocations = 0 =>
          /\ ~ctx_open /\ DOMAIN advice = {} /\ const_eq = {}
          /\ cells_to_lookup = {} /\ lookups = {}
    /\ (pc = "region" /\ invocations = 1) =>
          /\ ~first_pass
          /\ region_result = <<<<>>, <<>>>>
          /\ ~ctx_open /\ DOMAIN advice = {} /\ const_eq = {}
          /\ cells_to_lookup = {} /\ "new_context" \notin Range(steps)
    /\ invocations = 2 =>
          /\ region_result = <<LimbCells("n_limb"), ByteCells>>
          /\ ctx_open
    /\ pc \in {"constrain_n", "constrain_hash"} =>
          /\ public_key_cells = LimbCells("n_limb") /\ Len(public_key_cells) = 32
          /\ hashed_msg_cells = ByteCells /\ Len(hashed_msg_cells) = 32

C9_Witness ==
    /\ run = 2
    /\ result.kind = "Ok"
    /\ invocations = 2
    /\ public_key_cells = LimbCells("n_limb")

\* Every range check the gadgets ask for in one pass.
AllRangeChecks ==
    {[cell |-> c, bits |-> 64] :
        c \in Range(LimbCells("n_limb")) \cup Range(LimbCells("sig_limb"))}
    \cup {[cell |-> c, bits |-> 8] : c \in Range(ByteCells)}

\* C10: range().finalize is called exactly once per synthesis: not in the shape
\* pass, once in the real pass after the verifier and the flag assertion (so
\* after every range-checked cell of the pass exists), and every synthesis
\* that returns Ok has called it.
C10_FinalizeOnce ==
    /\ finalize_calls <= 1
    /\ (invocations = 0 \/ (pc = "region" /\ invocations = 1)) => finalize_calls = 0
    /\ finalize_calls = 1 =>
          /\ "verify" \in Range(steps)
          /\ FlagAsserted
          /\ cells_to_lookup \subseteq lookups
          /\ lookups = AllRangeChecks
    /\ result.kind = "Ok" => finalize_calls = 1

C10_Witness ==
    /\ result.kind = "Ok"
    /\ finalize_calls = 1
    /\ Cardinality(lookups) = 96
====
